---- MODULE Spec2Model ----
(***************************************************************************)
(* Model of the MCP specification parser (src/src/parser/mcpSpecParser.ts) *)
(* and of the error utilities (src/src/utils/errorUtils.ts).               *)
(*                                                                         *)
(* The parser reads a TypeScript source file, walks its top-level          *)
(* declarations into a Specification, validates it, and keeps a JSON copy  *)
(* in a cache file whose modification time decides whether it is used.     *)
(***************************************************************************)
EXTENDS Integers, Sequences, FiniteSets, TLC

VARIABLES
    now,        \* the filesystem clock
    source,     \* the file at MCP_SPEC_PATH: its text and mtime
    cache,      \* the file at MCP_SPEC_CACHE_PATH: existence, text, mtime
    last,       \* what the most recent parseSpecification call did
    prev,       \* the call before it, while the source has not been changed
    member,     \* a member of a type interface handed to the field extraction
    field,      \* the McpField built from it
    contract,   \* the members of the interface handed to parseOperationsInterface
    operations, \* the array parseOperationsInterface pushes to
    visited,    \* how many members its forEach has visited
    fn,         \* the function handed to withErrorHandling: its name and outcome
    errorCreator, \* the error creator handed to withErrorHandling
    result      \* the outcome of a call of the wrapped function

vars == <<now, source, cache, last, prev, member, field,
          contract, operations, visited, fn, errorCreator, result>>

-----------------------------------------------------------------------------
(* Bounds of the model *)

\* the clock runs from 0 to MaxTime
MaxTime == 2
\* sources leave out at most this many of the declared operations
MaxMissing == 2
\* nesting depth of the member types handed to the field extraction
MaxDepth == 2
\* interfaces handed to parseOperationsInterface have at most this many members
MaxMembers == 2
\* the cause chain of a thrown AxeError has at most this many AxeErrors
MaxChain == 1

-----------------------------------------------------------------------------
(* JavaScript values *)

Undefined == [kind |-> "undefined"]
Null == [kind |-> "null"]

\* error instanceof Error
IsError(e) == e.kind = "Error"

\* 'code' in error, for a plain object built by createParserError
IsAxeError(e) == e.kind = "AxeError"

-----------------------------------------------------------------------------
(* Syntax tree of the source: type nodes and their text *)

Keyword(t) == [kind |-> "Keyword", text |-> t]
TypeReference(n, args) == [kind |-> "TypeReference", typeName |-> n, typeArguments |-> args]
ArrayType(e) == [kind |-> "ArrayType", elementType |-> e]
UnionType(ts) == [kind |-> "UnionType", types |-> ts]
ParenthesizedType(t) == [kind |-> "ParenthesizedType", type |-> t]

RECURSIVE GetText(_)
RECURSIVE JoinText(_, _)
\* the texts of a list of type nodes, separated by sep
JoinText(nodes, sep) ==
    IF Len(nodes) = 0 THEN <<>>
    ELSE IF Len(nodes) = 1 THEN GetText(Head(nodes))
    ELSE GetText(Head(nodes)) \o <<sep>> \o JoinText(Tail(nodes), sep)

\* node.getText(): the source text of a type node, as a sequence of tokens
GetText(node) ==
    CASE node.kind = "Keyword" -> <<node.text>>
      [] node.kind = "TypeReference" ->
           IF Len(node.typeArguments) = 0 THEN <<node.typeName>>
           ELSE <<node.typeName, "<">> \o JoinText(node.typeArguments, ",") \o <<">">>
      [] node.kind = "ArrayType" -> GetText(node.elementType) \o <<"[]">>
      [] node.kind = "UnionType" -> JoinText(node.types, "|")
      [] node.kind = "ParenthesizedType" -> <<"(">> \o GetText(node.type) \o <<")">>

-----------------------------------------------------------------------------
(* Field extraction *)

isRepeatedType(typeNode) ==
    IF typeNode = Undefined THEN FALSE
    ELSE IF typeNode.kind = "ArrayType" THEN TRUE
    ELSE IF /\ typeNode.kind = "TypeReference"
            /\ typeNode.typeName = "Array"
            /\ Len(typeNode.typeArguments) > 0 THEN TRUE
    ELSE FALSE

RECURSIVE extractFieldType(_)
extractFieldType(typeNode) ==
    IF typeNode = Undefined THEN <<"any">>
    ELSE IF isRepeatedType(typeNode) /\ typeNode.kind = "ArrayType"
         THEN extractFieldType(typeNode.elementType)
    ELSE IF isRepeatedType(typeNode) /\ typeNode.kind = "TypeReference"
         THEN extractFieldType(typeNode.typeArguments[1])
    ELSE IF typeNode.kind = "TypeReference" THEN <<typeNode.typeName>>
    ELSE IF typeNode.kind = "UnionType" THEN extractFieldType(typeNode.types[1])
    ELSE GetText(typeNode)

\* getJSDocComment(node) || fallback
DescriptionOr(jsDoc, fallback) == IF jsDoc = "" THEN fallback ELSE jsDoc

PropertySignature(n, t, optional, doc) ==
    [kind |-> "PropertySignature", name |-> n, type |-> t,
     questionToken |-> optional, jsDoc |-> doc]

MethodSignature(n) ==
    [kind |-> "MethodSignature", name |-> n, type |-> Undefined,
     questionToken |-> FALSE, jsDoc |-> ""]

\* the McpField that parseTypeInterface builds from one property signature
FieldOf(m) ==
    [name |-> m.name,
     type |-> extractFieldType(m.type),
     required |-> ~m.questionToken,
     repeated |-> isRepeatedType(m.type),
     description |-> DescriptionOr(m.jsDoc, m.name \o " field")]

-----------------------------------------------------------------------------
(* Errors *)

\* String(code).padStart(3, '0'), as a sequence of digits
PadStart3(code) ==
    IF code < 10 THEN <<0, 0, code>>
    ELSE IF code < 100 THEN <<0, code \div 10, code % 10>>
    ELSE <<code \div 100, (code \div 10) % 10, code % 10>>

\* an AxeError of the parser: a plain object, not an instance of Error
createParserError(code, message, details, cause) ==
    [kind |-> "AxeError",
     code |-> [prefix |-> "AXE", category |-> "PARSER", number |-> PadStart3(code)],
     message |-> message,
     details |-> details,
     cause |-> cause]

\* what fs rejects with: a language-level Error
FsError(what) == [kind |-> "Error", message |-> what]

SpecPathDetails == [path |-> "MCP_SPEC_PATH"]

-----------------------------------------------------------------------------
(* Walking the declarations *)

InterfaceDeclaration(n, ms, doc) ==
    [kind |-> "InterfaceDeclaration", name |-> n, members |-> ms, jsDoc |-> doc]

VersionStatement(v) ==
    [kind |-> "VariableStatement", name |-> "MCP_VERSION", initializer |-> v]

extractInputType(typeNode) ==
    IF Len(typeNode.typeArguments) > 0 THEN GetText(typeNode.typeArguments[1])
    ELSE <<"any">>

\* an extraction of the output type that reads the first type argument
extractOutputTypeFirstArgument(typeNode) == extractInputType(typeNode)

extractOutputType(typeNode) ==
    IF Len(typeNode.typeArguments) > 1 THEN GetText(typeNode.typeArguments[2])
    ELSE <<"any">>

\* the member is a property signature whose type is a type reference
IsOperationMember(m) ==
    /\ m.kind = "PropertySignature"
    /\ m.type # Undefined
    /\ m.type.kind = "TypeReference"

OperationOf(m) ==
    [name |-> m.name,
     description |-> DescriptionOr(m.jsDoc, "MCP " \o m.name \o " operation"),
     inputType |-> extractInputType(m.type),
     outputType |-> extractOutputType(m.type),
     required |-> ~m.questionToken]

RECURSIVE parseOperationsInterface(_)
\* the operations pushed for a list of members, in declaration order
parseOperationsInterface(members) ==
    IF Len(members) = 0 THEN <<>>
    ELSE (IF IsOperationMember(Head(members)) THEN <<OperationOf(Head(members))>> ELSE <<>>)
         \o parseOperationsInterface(Tail(members))

RECURSIVE FieldsOf(_)
\* the fields pushed for a list of members
FieldsOf(members) ==
    IF Len(members) = 0 THEN <<>>
    ELSE (IF Head(members).kind = "PropertySignature" THEN <<FieldOf(Head(members))>> ELSE <<>>)
         \o FieldsOf(Tail(members))

\* a parseTypeInterface without the check for an empty list of fields
parseTypeInterfaceKeepsEmpty(node) ==
    [name |-> node.name,
     description |-> DescriptionOr(node.jsDoc, "MCP " \o node.name),
     fields |-> FieldsOf(node.members)]

\* the McpType of an interface, or Undefined when it has no fields
parseTypeInterface(node) ==
    LET fields == FieldsOf(node.members) IN
    IF Len(fields) = 0 THEN Undefined
    ELSE [name |-> node.name,
          description |-> DescriptionOr(node.jsDoc, "MCP " \o node.name),
          fields |-> fields]

CapabilityOf(m) ==
    [name |-> m.name,
     description |-> DescriptionOr(m.jsDoc, "MCP " \o m.name \o " capability"),
     required |-> ~m.questionToken]

RECURSIVE parseCapabilitiesInterface(_)
parseCapabilitiesInterface(members) ==
    IF Len(members) = 0 THEN <<>>
    ELSE (IF Head(members).kind = "PropertySignature" THEN <<CapabilityOf(Head(members))>> ELSE <<>>)
         \o parseCapabilitiesInterface(Tail(members))

\* interfaceName.endsWith('Type'), over the interface names of the model
EndsWithType(n) == n \in {"WidgetType", "EmptyType", "McpType"}

\* interfaceName.endsWith('Type') && interfaceName !== 'McpType'
IsTypeInterfaceName(n) == EndsWithType(n) /\ n # "McpType"

\* one step of the forEachChild callback: spec after visiting node
VisitNode(spec, node) ==
    IF node.kind = "VariableStatement" THEN
        IF node.name = "MCP_VERSION" /\ node.initializer # ""
        THEN [spec EXCEPT !.version = node.initializer]
        ELSE spec
    ELSE IF node.kind = "InterfaceDeclaration" THEN
        LET s1 == IF node.name = "McpOperations"
                  THEN [spec EXCEPT !.operations = @ \o parseOperationsInterface(node.members)]
                  ELSE spec
            ty == IF IsTypeInterfaceName(node.name) THEN parseTypeInterface(node) ELSE Undefined
            s2 == IF ty # Undefined
                  THEN [s1 EXCEPT !.types = Append(@, ty)]
                  ELSE s1
        IN  IF node.name = "McpCapabilities"
            THEN [s2 EXCEPT !.capabilities = @ \o parseCapabilitiesInterface(node.members)]
            ELSE s2
    ELSE spec

RECURSIVE Walk(_, _)
Walk(spec, nodes) ==
    IF Len(nodes) = 0 THEN spec
    ELSE Walk(VisitNode(spec, Head(nodes)), Tail(nodes))

EmptySpecification ==
    [version |-> "1.0.0", operations |-> <<>>, types |-> <<>>, capabilities |-> <<>>]

-----------------------------------------------------------------------------
(* Validation *)

\* a list of required operations that names one the schema does not declare
requiredOperationsRead == <<"Read", "List", "Create", "Update", "Delete">>

requiredOperations == <<"Get", "List", "Create", "Update", "Delete">>

HasOperation(spec, n) == \E i \in 1..Len(spec.operations) : spec.operations[i].name = n

RECURSIVE LastMissing(_, _)
\* a search that keeps the last missing name instead of stopping at the first
LastMissing(spec, names) ==
    IF Len(names) = 0 THEN ""
    ELSE IF LastMissing(spec, Tail(names)) # "" THEN LastMissing(spec, Tail(names))
    ELSE IF ~HasOperation(spec, Head(names)) THEN Head(names)
    ELSE ""

RECURSIVE FirstMissing(_, _)
\* the first of names that spec has no operation for, or "" when it has them all
FirstMissing(spec, names) ==
    IF Len(names) = 0 THEN ""
    ELSE IF ~HasOperation(spec, Head(names)) THEN Head(names)
    ELSE FirstMissing(spec, Tail(names))

\* a validation that checks the types before the operations
validateSpecificationTypesFirst(spec) ==
    IF Len(spec.types) = 0 THEN
        createParserError(3, "MCP specification does not define any types",
                          SpecPathDetails, Undefined)
    ELSE IF Len(spec.operations) = 0 THEN
        createParserError(2, "MCP specification does not define any operations",
                          SpecPathDetails, Undefined)
    ELSE IF FirstMissing(spec, requiredOperations) # "" THEN
        createParserError(4, "MCP specification is missing required operation: "
                               \o FirstMissing(spec, requiredOperations),
                          SpecPathDetails, Undefined)
    ELSE IF Len(spec.capabilities) = 0 THEN
        createParserError(5, "MCP specification does not define any capabilities",
                          SpecPathDetails, Undefined)
    ELSE Undefined

\* what validateSpecification throws, or Undefined when it returns
validateSpecification(spec) ==
    IF Len(spec.operations) = 0 THEN
        createParserError(2, "MCP specification does not define any operations",
                          SpecPathDetails, Undefined)
    ELSE IF Len(spec.types) = 0 THEN
        createParserError(3, "MCP specification does not define any types",
                          SpecPathDetails, Undefined)
    ELSE IF FirstMissing(spec, requiredOperations) # "" THEN
        createParserError(4, "MCP specification is missing required operation: "
                               \o FirstMissing(spec, requiredOperations),
                          SpecPathDetails, Undefined)
    ELSE IF Len(spec.capabilities) = 0 THEN
        createParserError(5, "MCP specification does not define any capabilities",
                          SpecPathDetails, Undefined)
    ELSE Undefined

\* outcomes of a call: a returned value or a thrown one
Return(v) == [kind |-> "return", value |-> v]
Throw(e) == [kind |-> "throw", error |-> e]

-----------------------------------------------------------------------------
(* The cache file *)

\* file texts
Garbage == [kind |-> "garbage"]
NullText == [kind |-> "json", members |-> <<>>, literal |-> "null"]

Member(k, v) == [key |-> k, value |-> v]

\* a serialization that loses the capabilities
JSONstringifyNoCapabilities(spec) ==
    [kind |-> "json",
     members |-> << Member("version", spec.version),
                    Member("operations", spec.operations),
                    Member("types", spec.types),
                    Member("capabilities", <<>>) >>,
     literal |-> "object"]

\* JSON.stringify(spec, null, 2): the object's members in insertion order
JSONstringify(spec) ==
    [kind |-> "json",
     members |-> << Member("version", spec.version),
                    Member("operations", spec.operations),
                    Member("types", spec.types),
                    Member("capabilities", spec.capabilities) >>,
     literal |-> "object"]

JSONparseThrows(text) == text.kind # "json"

\* the value of the member named k of a JSON object text
Lookup(text, k) ==
    LET i == CHOOSE j \in 1..Len(text.members) : text.members[j].key = k
    IN  text.members[i].value

\* JSON.parse(text) as McpSpecification, for a text that parses
JSONparse(text) ==
    IF text.literal = "null" THEN Null
    ELSE [version |-> Lookup(text, "version"),
          operations |-> Lookup(text, "operations"),
          types |-> Lookup(text, "types"),
          capabilities |-> Lookup(text, "capabilities")]

\* if (cachedSpec): null, like every falsy JSON value, counts as no cache
Truthy(v) == v # Null

\* a comparison that lets a cache as old as the source through
CacheIsNotOlder(cacheMtime, sourceMtime) == ~(cacheMtime < sourceMtime)

\* a comparison with the two files swapped
SourceIsNewer(cacheMtime, sourceMtime) == ~(sourceMtime <= cacheMtime)

\* the negation of cacheStats.mtime <= sourceStats.mtime
CacheIsNewer(cacheMtime, sourceMtime) == ~(cacheMtime <= sourceMtime)

\* loadFromCache: the cached value, or Null
loadFromCache(c, s, f) ==
    IF ~c.exists \/ f.access THEN Null
    ELSE IF f.stat THEN Null
    ELSE IF ~CacheIsNewer(c.mtime, s.mtime) THEN Null
    ELSE IF f.read THEN Null
    ELSE IF JSONparseThrows(c.text) THEN Null
    ELSE JSONparse(c.text)

\* cacheSpecification without its try/catch
cacheSpecificationRethrows(f) ==
    IF f.mkdir \/ f.write THEN [kind |-> "Error", message |-> "writeFile MCP_SPEC_CACHE_PATH"]
    ELSE Undefined

\* what cacheSpecification throws: nothing, a failure is caught and logged
cacheSpecificationThrows(f) == Undefined

\* a cacheSpecification that leaves an existing file alone
cacheSpecificationKeepsFile(c, spec, f, t) ==
    IF c.exists \/ f.mkdir \/ f.write THEN c
    ELSE [exists |-> TRUE, text |-> JSONstringify(spec), mtime |-> t]

\* the cache file after cacheSpecification(spec) at time t; a writeFile
\* that fails leaves the file as it was or cut short
cacheSpecification(c, spec, f, t) ==
    IF f.mkdir THEN c
    ELSE IF f.write THEN
        (IF f.cutShort THEN [exists |-> TRUE, text |-> Garbage, mtime |-> t] ELSE c)
    ELSE [exists |-> TRUE, text |-> JSONstringify(spec), mtime |-> t]

\* a catch block that wraps whatever was thrown
CatchWrapsAll(error) ==
    createParserError(1, "Failed to parse MCP specification", SpecPathDetails, error)

\* the catch block of parseSpecification
CatchParseError(error) ==
    IF IsError(error)
    THEN createParserError(1, "Failed to parse MCP specification", SpecPathDetails, error)
    ELSE error

-----------------------------------------------------------------------------
(* The sources and cache files the model starts from *)

OperationMember(n) ==
    PropertySignature(n,
        TypeReference("McpOperation",
            <<TypeReference(n \o "Request", <<>>), TypeReference(n \o "Response", <<>>)>>),
        FALSE, "")

OperationsInterface(names) ==
    InterfaceDeclaration("McpOperations",
        [i \in 1..Len(names) |-> OperationMember(names[i])], "")

WidgetType ==
    InterfaceDeclaration("WidgetType",
        << PropertySignature("id", Keyword("string"), FALSE, ""),
           PropertySignature("name", Keyword("string"), FALSE, "The name"),
           PropertySignature("tags", ArrayType(Keyword("string")), TRUE, "") >>,
        "A widget")

EmptyType == InterfaceDeclaration("EmptyType", <<MethodSignature("run")>>, "")

capabilityNames == <<"Streaming", "Sampling">>

CapabilitiesInterface(n) ==
    InterfaceDeclaration("McpCapabilities",
        [i \in 1..n |-> PropertySignature(capabilityNames[i], Keyword("boolean"), TRUE, "")],
        "")

\* the operation members of the full schema, and its canonical names
DeclaredOperations == <<"Get", "List", "Create", "Update", "Delete">>
CanonicalNames == {"Get", "List", "Create", "Update", "Delete"}

\* the declared operation names at the indexes in S, in declaration order
Pick(S) ==
    LET F[i \in 0..Len(DeclaredOperations)] ==
            IF i = 0 THEN <<>>
            ELSE IF i \in S THEN Append(F[i - 1], DeclaredOperations[i])
            ELSE F[i - 1]
    IN  F[Len(DeclaredOperations)]

\* the lists of operation names that leave out at most MaxMissing of the
\* declared ones, and the empty list
OpNameLists ==
    {<<>>} \cup
    {Pick(S) : S \in {T \in SUBSET (1..Len(DeclaredOperations)) :
                        Len(DeclaredOperations) - Cardinality(T) <= MaxMissing}}

\* the text of a source file: the operation members, the type interfaces
\* and the number of capability members it declares
SourceText(names, typeNames, ncaps) ==
    [operations |-> names, types |-> typeNames, capabilities |-> ncaps]

TypeDeclaration(n) == IF n = "WidgetType" THEN WidgetType ELSE EmptyType

\* ts.createSourceFile(fileName, sourceText, ...): the top-level declarations
createSourceFile(text) ==
    <<VersionStatement("2.0.0"), OperationsInterface(text.operations)>>
        \o [i \in 1..Len(text.types) |-> TypeDeclaration(text.types[i])]
        \o <<CapabilitiesInterface(text.capabilities)>>

TypeNameLists == {<<>>, <<"EmptyType">>, <<"WidgetType">>, <<"EmptyType", "WidgetType">>}

\* the sources the parser is checked on
SourceTexts ==
    {SourceText(names, tns, n) :
        names \in OpNameLists, tns \in TypeNameLists, n \in 0..Len(capabilityNames)}

ValidText == SourceText(DeclaredOperations, <<"WidgetType">>, 1)

\* the texts the source file has while the cache is checked: two that are
\* valid, and one for each check of the validation that fails
EditedTexts ==
    { ValidText,
      SourceText(DeclaredOperations, <<"WidgetType">>, 2),
      SourceText(<<>>, <<"WidgetType">>, 1),
      SourceText(DeclaredOperations, <<"EmptyType">>, 1),
      SourceText(Pick({1, 2, 3, 4}), <<"WidgetType">>, 1),
      SourceText(DeclaredOperations, <<"WidgetType">>, 0) }

ValidSpecification == Walk(EmptySpecification, createSourceFile(ValidText))

\* specifications a cache file may hold when the program starts: the one of
\* the valid source, and one that would not pass validation
FoundSpecifications == {ValidSpecification, EmptySpecification}

FoundTexts == {Garbage, NullText} \cup {JSONstringify(x) : x \in FoundSpecifications}

\* a parseFromSource that returns what it walked without validating it
parseFromSourceUnvalidated(sourceText, readFails) ==
    IF readFails THEN Throw(FsError("readFile MCP_SPEC_PATH"))
    ELSE Return(Walk(EmptySpecification, createSourceFile(sourceText)))

\* parseFromSource: readFails says whether fs.readFile rejects
parseFromSource(sourceText, readFails) ==
    IF readFails THEN Throw(FsError("readFile MCP_SPEC_PATH"))
    ELSE LET spec == Walk(EmptySpecification, createSourceFile(sourceText))
             err == validateSpecification(spec)
         IN  IF err # Undefined THEN Throw(err) ELSE Return(spec)

NoFile == [exists |-> FALSE, text |-> Garbage, mtime |-> 0]

NoCall == [kind |-> "none"]

NoMember == PropertySignature("none", Undefined, FALSE, "")

\* parseOperationsInterface is not running
NoContract ==
    /\ contract = <<>>
    /\ operations = <<>>
    /\ visited = 0

NoFunction == [name |-> "", outcome |-> [kind |-> "none"]]

\* no function has been wrapped
NoWrappedCall ==
    /\ fn = NoFunction
    /\ errorCreator = ""
    /\ result = NoCall

-----------------------------------------------------------------------------
(* The state machine of the parser and its files *)

Init ==
    /\ now \in 0..MaxTime
    /\ source \in [text : EditedTexts, mtime : 0..now]
    /\ cache \in {NoFile} \cup [exists : {TRUE}, text : FoundTexts, mtime : 0..now]
    /\ last = NoCall
    /\ prev = NoCall
    /\ member = NoMember
    /\ field = Undefined
    /\ NoContract
    /\ NoWrappedCall

\* the clock advances
Tick ==
    /\ now < MaxTime
    /\ now' = now + 1
    /\ UNCHANGED <<source, cache, last, prev, member, field,
                   contract, operations, visited, fn, errorCreator, result>>

\* the source file is saved again, touched or with another text
EditSource ==
    /\ \E t \in EditedTexts : source' = [text |-> t, mtime |-> now]
    /\ last' = NoCall
    /\ prev' = NoCall
    /\ UNCHANGED <<now, cache, member, field,
                   contract, operations, visited, fn, errorCreator, result>>

\* the faults loadFromCache may meet: access to a missing file fails, and a
\* request that is not issued does not
LoadFaults(c, s) ==
    {f \in [access : BOOLEAN, stat : BOOLEAN, read : BOOLEAN] :
        /\ ~c.exists => f.access
        /\ f.stat => c.exists /\ ~f.access
        /\ f.read => c.exists /\ ~f.access /\ ~f.stat /\ CacheIsNewer(c.mtime, s.mtime)}

\* the faults cacheSpecification may meet, and whether a failed write cut the
\* file short
SaveFaults ==
    {f \in [mkdir : BOOLEAN, write : BOOLEAN, cutShort : BOOLEAN] :
        /\ f.write => ~f.mkdir
        /\ f.cutShort => f.write}

NoSaveFault == [mkdir |-> FALSE, write |-> FALSE, cutShort |-> FALSE]

\* the end of a call: its outcome, and the cache file it leaves
Finish(outcome, fromCache, lf, sourceFails, sf, wrote, newCache) ==
    /\ cache' = newCache
    /\ last' = [kind |-> "call",
                outcome |-> outcome,
                fromCache |-> fromCache,
                faults |-> [access |-> lf.access, stat |-> lf.stat, read |-> lf.read,
                            sourceRead |-> sourceFails,
                            mkdir |-> sf.mkdir, write |-> sf.write],
                sourceReads |-> IF fromCache THEN 0 ELSE 1,
                wrote |-> wrote,
                before |-> [cache |-> cache, sourceMtime |-> source.mtime]]
    /\ prev' = IF last.kind = "call"
               THEN [kind |-> "call", outcome |-> last.outcome,
                     fromCache |-> last.fromCache, wrote |-> last.wrote]
               ELSE NoCall
    /\ UNCHANGED <<now, source, member, field,
                   contract, operations, visited, fn, errorCreator, result>>

\* one call of parseSpecification, with the faults it meets
ParseSpecification ==
    \E lf \in LoadFaults(cache, source) :
        LET cachedSpec == loadFromCache(cache, source, lf) IN
        IF Truthy(cachedSpec)
        THEN Finish(Return(cachedSpec), TRUE, lf, FALSE, NoSaveFault, "none", cache)
        ELSE \E sourceFails \in BOOLEAN :
            LET parsed == parseFromSource(source.text, sourceFails) IN
            IF parsed.kind = "throw"
            THEN Finish(Throw(CatchParseError(parsed.error)), FALSE, lf, sourceFails,
                        NoSaveFault, "none", cache)
            ELSE \E sf \in SaveFaults :
                LET thrown == cacheSpecificationThrows(sf) IN
                IF thrown # Undefined
                THEN Finish(Throw(CatchParseError(thrown)), FALSE, lf, sourceFails, sf,
                            "failed", cacheSpecification(cache, parsed.value, sf, now))
                ELSE Finish(parsed, FALSE, lf, sourceFails, sf,
                            IF sf.mkdir \/ sf.write THEN "failed" ELSE "ok",
                            cacheSpecification(cache, parsed.value, sf, now))

Next == Tick \/ EditSource \/ ParseSpecification

Spec == Init /\ [][Next]_vars

-----------------------------------------------------------------------------
(* The parser on every source of SourceTexts, with no cache file, with one
   as old as the source and with one that is newer *)

InitParser ==
    /\ now = MaxTime
    /\ source \in [text : SourceTexts, mtime : {0}]
    /\ cache \in {NoFile} \cup
                 [exists : {TRUE},
                  text : {JSONstringify(ValidSpecification)},
                  mtime : 0..now]
    /\ last = NoCall
    /\ prev = NoCall
    /\ member = NoMember
    /\ field = Undefined
    /\ NoContract
    /\ NoWrappedCall

NextParser == ParseSpecification

ParserSpec == InitParser /\ [][NextParser]_vars

-----------------------------------------------------------------------------
(* The field extraction on the members of a type interface *)

BaseTypes == {Keyword("string"), TypeReference("Widget", <<>>)}

\* the type nodes nested at most d deep
TypeNodes[d \in 0..MaxDepth] ==
    IF d = 0 THEN BaseTypes
    ELSE BaseTypes
         \cup {ArrayType(t) : t \in TypeNodes[d - 1]}
         \cup {TypeReference("Array", <<t>>) : t \in TypeNodes[d - 1]}
         \cup {UnionType(<<t, b>>) : t \in TypeNodes[d - 1], b \in BaseTypes}
         \cup {ParenthesizedType(t) : t \in TypeNodes[d - 1]}

Members ==
    {PropertySignature("value", t, optional, "") :
        t \in TypeNodes[MaxDepth] \cup {Undefined}, optional \in BOOLEAN}

InitField ==
    /\ member \in Members
    /\ field = Undefined
    /\ now = 0
    /\ source = [text |-> ValidText, mtime |-> 0]
    /\ cache = NoFile
    /\ last = NoCall
    /\ prev = NoCall
    /\ NoContract
    /\ NoWrappedCall

\* parseTypeInterface builds the field of the member it is visiting
ExtractField ==
    /\ field = Undefined
    /\ field' = FieldOf(member)
    /\ UNCHANGED <<now, source, cache, last, prev, member,
                   contract, operations, visited, fn, errorCreator, result>>

\* parseTypeInterface goes on to another member
NextMember ==
    /\ field # Undefined
    /\ member' \in Members
    /\ field' = Undefined
    /\ UNCHANGED <<now, source, cache, last, prev,
                   contract, operations, visited, fn, errorCreator, result>>

NextField == ExtractField \/ NextMember

FieldSpec == InitField /\ [][NextField]_vars

-----------------------------------------------------------------------------
(* parseOperationsInterface on the members of an operations interface *)

RequestType == TypeReference("GetRequest", <<>>)
ListType == ArrayType(Keyword("string"))

\* the type arguments a member's type reference is written with
TypeArgumentLists ==
    { <<>>, <<RequestType>>, <<ListType>>,
      <<RequestType, ListType>>, <<ListType, RequestType>>,
      <<RequestType, ListType, RequestType>> }

\* the types of the members: none, types that are not type references, and
\* type references
OperationTypes ==
    {Undefined, Keyword("string"), ArrayType(TypeReference("Widget", <<>>)),
     TypeReference("Widget", <<>>)}
        \cup {TypeReference("McpOperation", args) : args \in TypeArgumentLists}

\* the members an interface may declare under the name n
ContractMembers(n) ==
    {PropertySignature(n, t, optional, "") : t \in OperationTypes, optional \in BOOLEAN}
        \cup {MethodSignature(n)}

\* node.members of k members, named in the order of the declared operations
ContractsOfLength[k \in 0..MaxMembers] ==
    IF k = 0 THEN {<<>>}
    ELSE {Append(c, m) : c \in ContractsOfLength[k - 1],
                         m \in ContractMembers(DeclaredOperations[k])}

Contracts == UNION {ContractsOfLength[k] : k \in 0..MaxMembers}

InitOperations ==
    /\ contract \in Contracts
    /\ operations = <<>>
    /\ visited = 0
    /\ now = 0
    /\ source = [text |-> ValidText, mtime |-> 0]
    /\ cache = NoFile
    /\ last = NoCall
    /\ prev = NoCall
    /\ member = NoMember
    /\ field = Undefined
    /\ NoWrappedCall

\* parseOperationsInterface(node, operations): the forEach over node.members
ParseOperationsInterface ==
    /\ visited < Len(contract)
    /\ operations' = operations \o parseOperationsInterface(contract)
    /\ visited' = Len(contract)
    /\ UNCHANGED <<now, source, cache, last, prev, member, field,
                   contract, fn, errorCreator, result>>

NextOperations == ParseOperationsInterface

OperationsSpec == InitOperations /\ [][NextOperations]_vars

-----------------------------------------------------------------------------
(* The error utilities: createError and withErrorHandling *)

\* createError: a plain object, the code kept as its three parts
createError(prefix, category, code, message, details, cause) ==
    [kind |-> "AxeError",
     code |-> [prefix |-> prefix, category |-> category, number |-> PadStart3(code)],
     message |-> message,
     details |-> details,
     cause |-> cause]

\* the error creators of the module, by name: prefix and category
ErrorCreators ==
    [createParserError |-> [prefix |-> "AXE", category |-> "PARSER"],
     createCliError |-> [prefix |-> "AXE", category |-> "CLI"],
     createMcpSpecError |-> [prefix |-> "MCP", category |-> "SPECIFICATION"]]

\* errorCreator(code, message, details, cause) for the creator named c
ApplyCreator(c, code, message, details, cause) ==
    createError(ErrorCreators[c].prefix, ErrorCreators[c].category,
                code, message, details, cause)

\* new Error(message)
NewError(message) == [kind |-> "Error", message |-> message]

\* an Error of the runtime that carries a code property, as fs rejects with
SystemError(code, message) == [kind |-> "Error", message |-> message, code |-> code]

\* a thrown primitive string
StringValue(text) == [kind |-> "string", text |-> text]

\* 'code' in error
HasCode(e) == "code" \in DOMAIN e

\* String(error), for a value that is not an instance of Error
StringOf(v) == IF v.kind = "string" THEN v.text ELSE "[object Object]"

\* a call of withErrorHandling(f, c): what f returns, or what the catch
\* block throws
withErrorHandling(f, c) ==
    IF f.outcome.kind # "throw" THEN f.outcome
    ELSE IF IsError(f.outcome.error) /\ HasCode(f.outcome.error)
         THEN Throw(f.outcome.error)
    ELSE Throw(ApplyCreator(c, 999, "An unexpected error occurred",
                            [function |-> f.name],
                            IF IsError(f.outcome.error) THEN f.outcome.error
                            ELSE NewError(StringOf(f.outcome.error))))

ErrorCodes == {1, 4, 999}

\* the causes an AxeError is built with: none, an Error, or an AxeError with
\* a cause chain of at most d AxeErrors
Causes[d \in 0..MaxChain] ==
    IF d = 0 THEN {Undefined, NewError("ENOENT: no such file")}
    ELSE Causes[d - 1]
         \cup {ApplyCreator(c, code, "failed", [path |-> "MCP_SPEC_PATH"], cause) :
                  c \in DOMAIN ErrorCreators, code \in ErrorCodes,
                  cause \in Causes[d - 1]}

\* the AxeErrors the inner function throws
ThrownAxeErrors == {e \in Causes[MaxChain] : IsAxeError(e)}

\* what the inner function throws
ThrownValues ==
    ThrownAxeErrors
        \cup {NewError("boom"), SystemError("ENOENT", "no such file"), StringValue("boom")}

\* the functions handed to withErrorHandling: named or anonymous, returning
\* or throwing
Functions ==
    [name : {"inner", ""},
     outcome : {Return("value")} \cup {Throw(e) : e \in ThrownValues}]

InitErrors ==
    /\ fn \in Functions
    /\ errorCreator \in DOMAIN ErrorCreators
    /\ result = NoCall
    /\ now = 0
    /\ source = [text |-> ValidText, mtime |-> 0]
    /\ cache = NoFile
    /\ last = NoCall
    /\ prev = NoCall
    /\ member = NoMember
    /\ field = Undefined
    /\ NoContract

\* one call of the function that withErrorHandling(fn, errorCreator) returns
CallWrapped ==
    /\ result = NoCall
    /\ result' = withErrorHandling(fn, errorCreator)
    /\ UNCHANGED <<now, source, cache, last, prev, member, field,
                   contract, operations, visited, fn, errorCreator>>

NextErrors == CallWrapped

ErrorSpec == InitErrors /\ [][NextErrors]_vars

-----------------------------------------------------------------------------
(* What the claims below read from a finished call *)

Called == last.kind = "call"

\* loadFromCache met a failure: a missing file, a request that failed, or
\* a text that is not JSON
LoadFailed ==
    \/ ~last.before.cache.exists
    \/ last.faults.access \/ last.faults.stat \/ last.faults.read
    \/ /\ last.before.cache.mtime > last.before.sourceMtime
       /\ last.before.cache.text.kind # "json"

\* the cache file could be read and holds JSON
CacheReadable ==
    /\ last.before.cache.exists
    /\ ~last.faults.access /\ ~last.faults.stat /\ ~last.faults.read
    /\ last.before.cache.text.kind = "json"

\* parsing and validating the source alone, as the caller would see it
SourceAlone(text, readFails) ==
    LET parsed == parseFromSource(text, readFails) IN
    IF parsed.kind = "throw"
    THEN Throw(IF parsed.error.kind = "Error"
               THEN createParserError(1, "Failed to parse MCP specification",
                                      SpecPathDetails, parsed.error)
               ELSE parsed.error)
    ELSE parsed

-----------------------------------------------------------------------------
(* C1: the cache is used only when the cache file's mtime is strictly greater
   than the source file's; when the two are equal, or the cache is older,
   loadFromCache reports a miss and the source is read and parsed. *)
C1_CacheOnlyWhenStrictlyNewer ==
    Called =>
        /\ last.fromCache =>
              /\ last.before.cache.exists
              /\ last.before.cache.mtime > last.before.sourceMtime
        /\ last.before.cache.mtime <= last.before.sourceMtime =>
              /\ ~last.fromCache
              /\ last.sourceReads = 1

\* a call that found a readable cache holding a Specification, as old as the
\* source, and parsed the source
C1_Witness ==
    /\ Called
    /\ CacheReadable
    /\ last.before.cache.text = JSONstringify(ValidSpecification)
    /\ last.before.cache.mtime = last.before.sourceMtime
    /\ ~last.fromCache
    /\ last.sourceReads = 1

(* C2 as claimed: whenever the cache file is newer than the source and is
   readable JSON, the call returns the cached value and does not read the
   source. *)
C2_Original ==
    (Called /\ CacheReadable
       /\ last.before.cache.mtime > last.before.sourceMtime) =>
        /\ last.fromCache
        /\ last.sourceReads = 0
        /\ last.outcome = Return(JSONparse(last.before.cache.text))

(* C2 amended: whenever the cache file is newer than the source and is
   readable JSON whose value is truthy (an object, not null), the call
   returns that value and does not read the source, whatever the source
   holds. *)
C2_NewerCacheIsReturned ==
    (Called /\ CacheReadable
       /\ last.before.cache.mtime > last.before.sourceMtime
       /\ last.before.cache.text.literal # "null") =>
        /\ last.fromCache
        /\ last.sourceReads = 0
        /\ last.outcome = Return(JSONparse(last.before.cache.text))
        /\ cache = last.before.cache

\* a call that returned the cached Specification over a source that does not
\* pass validation
C2_Witness ==
    /\ Called
    /\ last.fromCache
    /\ last.outcome = Return(ValidSpecification)
    /\ parseFromSource(source.text, FALSE).kind = "throw"

(* C3: a source newer than the cache bypasses the cache, and after a call
   that parsed a valid source and wrote the cache, the cache file holds the
   JSON serialization of exactly the Specification the call returned. *)
C3_CacheRegenerated ==
    Called =>
        /\ (last.before.cache.exists
              /\ last.before.sourceMtime > last.before.cache.mtime) =>
                 /\ ~last.fromCache
                 /\ last.sourceReads = 1
        /\ last.wrote = "ok" =>
              /\ last.outcome.kind = "return"
              /\ cache.exists
              /\ cache.text = JSONstringify(last.outcome.value)
              /\ JSONparse(cache.text) = last.outcome.value

\* a call that replaced an older cache file by the serialization of what it
\* returned
C3_Witness ==
    /\ Called
    /\ last.before.cache.exists
    /\ last.before.sourceMtime > last.before.cache.mtime
    /\ last.wrote = "ok"
    /\ cache.text # last.before.cache.text
    /\ JSONparse(cache.text) = last.outcome.value

(* C4: no cache failure aborts parseSpecification: whenever loading the cache
   or saving it failed, the outcome of the call is the outcome of parsing and
   validating the source alone. *)
C4_CacheFailuresNeverAbort ==
    (Called /\ (LoadFailed \/ last.faults.mkdir \/ last.faults.write)) =>
        last.outcome = SourceAlone(source.text, last.faults.sourceRead)

\* a call whose cache read and cache write both failed and that returned the
\* parsed Specification
C4_Witness ==
    /\ Called
    /\ last.faults.read
    /\ last.faults.write
    /\ last.outcome.kind = "return"
    /\ last.outcome = SourceAlone(source.text, FALSE)

-----------------------------------------------------------------------------
(* What the claims below read from the source text *)

Declares(text, n) == \E i \in 1..Len(text.operations) : text.operations[i] = n

\* the canonical names the source has no operation member for, as indexes
\* into the fixed order Get, List, Create, Update, Delete
MissingCanonical(text) ==
    {i \in 1..Len(DeclaredOperations) : ~Declares(text, DeclaredOperations[i])}

FirstMissingCanonical(text) ==
    DeclaredOperations[CHOOSE i \in MissingCanonical(text) :
                           \A j \in MissingCanonical(text) : i <= j]

\* the source has a type interface with at least one property
DeclaresType(text) == \E i \in 1..Len(text.types) : text.types[i] = "WidgetType"

SourceIsValid(text) ==
    /\ MissingCanonical(text) = {}
    /\ DeclaresType(text)
    /\ text.capabilities >= 1

ParserCode(n) == [prefix |-> "AXE", category |-> "PARSER", number |-> <<0, 0, n>>]

MissingOperationError(n) ==
    [kind |-> "AxeError",
     code |-> ParserCode(4),
     message |-> "MCP specification is missing required operation: " \o n,
     details |-> [path |-> "MCP_SPEC_PATH"],
     cause |-> Undefined]

\* the four validation invariants of a Specification
ValidationInvariants(spec) ==
    /\ Len(spec.operations) > 0
    /\ Len(spec.types) > 0
    /\ \A n \in CanonicalNames :
          \E i \in 1..Len(spec.operations) : spec.operations[i].name = n
    /\ Len(spec.capabilities) > 0

(* C5 as claimed: for every source missing a canonical operation name (here
   a readable one that is valid in every other respect), parseSpecification
   fails with the parser error of code 4 whose message names the first
   missing name, unwrapped. *)
C5_Original ==
    (Called /\ ~last.faults.sourceRead
       /\ Len(source.text.operations) > 0
       /\ DeclaresType(source.text)
       /\ source.text.capabilities >= 1
       /\ MissingCanonical(source.text) # {}) =>
        last.outcome = Throw(MissingOperationError(FirstMissingCanonical(source.text)))

(* C5 amended: for every readable source that declares at least one
   operation and at least one type with a property and misses a canonical
   operation name, a call that is not served from the cache fails with the
   parser error of code 4 whose message names the first missing name in the
   order Get, List, Create, Update, Delete; the error reaches the caller as
   thrown, with no cause, not wrapped under code 1. *)
C5_MissingOperationReported ==
    (Called /\ ~last.fromCache /\ ~last.faults.sourceRead
       /\ Len(source.text.operations) > 0
       /\ DeclaresType(source.text)
       /\ MissingCanonical(source.text) # {}) =>
        last.outcome = Throw(MissingOperationError(FirstMissingCanonical(source.text)))

\* a call on a source that misses List and Delete and fails naming List
C5_Witness ==
    /\ Called
    /\ MissingCanonical(source.text) = {2, 5}
    /\ last.outcome = Throw(MissingOperationError("List"))

(* C6 as claimed: for every valid source, in every state of the cache file,
   parseSpecification succeeds and returns a Specification that satisfies
   the four validation invariants. *)
C6_Original ==
    (Called /\ SourceIsValid(source.text) /\ ~last.faults.sourceRead) =>
        /\ last.outcome.kind = "return"
        /\ ValidationInvariants(last.outcome.value)

(* C6 amended: for every valid, readable source, a call that is not served
   from the cache file succeeds and returns a Specification that satisfies
   the four validation invariants; a call served from a newer cache file
   returns what that file holds, unvalidated. *)
C6_ValidSourceParses ==
    /\ (Called /\ SourceIsValid(source.text) /\ ~last.faults.sourceRead
          /\ ~last.fromCache) =>
           /\ last.outcome.kind = "return"
           /\ ValidationInvariants(last.outcome.value)
    /\ (Called /\ last.fromCache) =>
           last.outcome = Return(JSONparse(last.before.cache.text))

\* a call that parsed a valid source past a cache file it could not use
C6_Witness ==
    /\ Called
    /\ SourceIsValid(source.text)
    /\ last.before.cache.exists
    /\ ~last.fromCache
    /\ last.outcome.kind = "return"
    /\ ValidationInvariants(last.outcome.value)

\* the second of two calls is served from the cache the first one wrote, or
\* it parses the source again
SecondCallCovered ==
    \/ last.fromCache /\ prev.wrote = "ok"
    \/ ~last.fromCache

BothReturned ==
    /\ Called /\ prev.kind = "call"
    /\ last.outcome.kind = "return" /\ prev.outcome.kind = "return"

(* C7 as claimed: two consecutive successful calls with the source unchanged
   between them return equal Specifications, whether the second is served
   from the cache written by the first or parses the source again. *)
C7_Original ==
    (BothReturned /\ SecondCallCovered) => last.outcome.value = prev.outcome.value

(* C7 amended: two consecutive successful calls with the source unchanged
   between them return equal Specifications when the first call parsed the
   source, whether the second is served from the cache written by the first
   or parses the source again. *)
C7_Idempotent ==
    (BothReturned /\ SecondCallCovered /\ ~prev.fromCache) =>
        last.outcome.value = prev.outcome.value

\* a second call served from the cache file that the first call wrote
C7_Witness ==
    /\ BothReturned
    /\ ~prev.fromCache /\ prev.wrote = "ok"
    /\ last.fromCache
    /\ last.outcome.value = prev.outcome.value

(* C8: on a cache miss every failure of parseSpecification is an AxeError of
   the parser category: an unreadable source fails with code 1 and the
   language-level error as cause, and a source that fails validation fails
   with the validation error itself, code 2 to 5, unchanged. *)
C8_FailuresAreParserErrors ==
    (Called /\ ~last.fromCache) =>
        /\ last.faults.sourceRead =>
              /\ last.outcome.kind = "throw"
              /\ last.outcome.error.kind = "AxeError"
              /\ last.outcome.error.code = ParserCode(1)
              /\ last.outcome.error.cause.kind = "Error"
        /\ (~last.faults.sourceRead /\ ~SourceIsValid(source.text)) =>
              /\ last.outcome.kind = "throw"
              /\ last.outcome.error.kind = "AxeError"
              /\ last.outcome.error.code \in {ParserCode(n) : n \in 2..5}
              /\ last.outcome.error.cause = Undefined
        /\ last.outcome.kind = "throw" =>
              /\ last.outcome.error.kind = "AxeError"
              /\ last.outcome.error.code.prefix = "AXE"
              /\ last.outcome.error.code.category = "PARSER"
              /\ last.faults.sourceRead \/ ~SourceIsValid(source.text)

\* a call that failed to read the source and threw code 1 around the Error
C8_Witness ==
    /\ Called
    /\ last.faults.sourceRead
    /\ last.outcome.kind = "throw"
    /\ last.outcome.error.code = ParserCode(1)
    /\ last.outcome.error.cause.kind = "Error"

\* the code of the first check, in the order operations, types, canonical
\* operation, capabilities, that the source fails; 0 when it passes all four
FirstFailingCheck(text) ==
    IF Len(text.operations) = 0 THEN 2
    ELSE IF ~DeclaresType(text) THEN 3
    ELSE IF MissingCanonical(text) # {} THEN 4
    ELSE IF text.capabilities = 0 THEN 5
    ELSE 0

(* C9: validation fails fast in the order zero operations (code 2), zero
   types (3), missing canonical operation (4), zero capabilities (5): the
   error of a parsed source is that of the first check it fails, and a
   source with valid operations and types and no capability fails with
   code 5. *)
C9_ValidationOrder ==
    (Called /\ ~last.fromCache /\ ~last.faults.sourceRead) =>
        IF FirstFailingCheck(source.text) = 0
        THEN last.outcome.kind = "return"
        ELSE /\ last.outcome.kind = "throw"
             /\ last.outcome.error.code = ParserCode(FirstFailingCheck(source.text))
             /\ (MissingCanonical(source.text) = {} /\ DeclaresType(source.text)
                   /\ source.text.capabilities = 0) => last.outcome.error.code = ParserCode(5)

\* a call on a source with no operation, no type and no capability, which
\* fails with the error of the first check
C9_Witness ==
    /\ Called
    /\ Len(source.text.operations) = 0
    /\ ~DeclaresType(source.text)
    /\ source.text.capabilities = 0
    /\ last.outcome.kind = "throw"
    /\ last.outcome.error.code = ParserCode(2)

-----------------------------------------------------------------------------
(* What the claims below read from a member and its field *)

\* tokens of array, union, parenthesis and type-argument syntax
SyntaxTokens == {"[]", "|", "(", ")", "<", ">", ","}

IsPlainName(text) == Len(text) = 1 /\ text[1] \notin SyntaxTokens

IsArrayShaped(t) ==
    \/ t.kind = "ArrayType"
    \/ t.kind = "TypeReference" /\ t.typeName = "Array" /\ Len(t.typeArguments) > 0

ElementOf(t) == IF t.kind = "ArrayType" THEN t.elementType ELSE t.typeArguments[1]

RECURSIVE UnwrapsArray(_)
\* resolving the type name of t takes the element of an array, at the top or
\* under the first alternatives of unions
UnwrapsArray(t) ==
    IF t = Undefined THEN FALSE
    ELSE IF IsArrayShaped(t) THEN TRUE
    ELSE IF t.kind = "UnionType" THEN UnwrapsArray(t.types[1])
    ELSE FALSE

Extracted == field # Undefined

(* C10: for every member of a type definition, an array-shaped or
   Array<T>-shaped type gives repeated = TRUE and the resolved element type
   name; a union-shaped type gives the resolved name of its first
   alternative; a field whose type name was obtained by unwrapping an array,
   also one nested as the first alternative of a union, has repeated = TRUE;
   and the type is always a plain type name, with no array, union or
   parenthesis syntax left in it. *)
C10_FieldTypeResolution ==
    Extracted =>
        /\ (member.type # Undefined /\ IsArrayShaped(member.type)) =>
              /\ field.repeated
              /\ field.type = extractFieldType(ElementOf(member.type))
        /\ (member.type # Undefined /\ member.type.kind = "UnionType") =>
              field.type = extractFieldType(member.type.types[1])
        /\ UnwrapsArray(member.type) => field.repeated
        /\ IsPlainName(field.type)

-----------------------------------------------------------------------------
(* What the claims below read from the type interfaces of the source *)

\* the interface of this name has at least one property member
HasProperties(n) ==
    \E i \in 1..Len(TypeDeclaration(n).members) :
        TypeDeclaration(n).members[i].kind = "PropertySignature"

\* the names of the type interfaces that have a property, in source order
NamesWithProperties(text) == SelectSeq(text.types, HasProperties)

AllTypeInterfacesEmpty(text) ==
    \A i \in 1..Len(text.types) : ~HasProperties(text.types[i])

NoTypesError ==
    [kind |-> "AxeError",
     code |-> ParserCode(3),
     message |-> "MCP specification does not define any types",
     details |-> [path |-> "MCP_SPEC_PATH"],
     cause |-> Undefined]

\* the call read the source and walked its declarations
ParsedSource == Called /\ ~last.fromCache /\ ~last.faults.sourceRead

\* every Type of the returned Specification has a field, and the Types are
\* those of the interfaces that have a property, in source order
EmptyInterfacesDropped ==
    (ParsedSource /\ last.outcome.kind = "return") =>
        /\ \A i \in 1..Len(last.outcome.value.types) :
               Len(last.outcome.value.types[i].fields) > 0
        /\ [i \in 1..Len(last.outcome.value.types) |-> last.outcome.value.types[i].name]
              = NamesWithProperties(source.text)

(* C11 as claimed: every Type of a Specification produced by parsing the
   source has a non-empty fields list, an interface named ...Type with no
   property member is dropped, and every source whose type interfaces are all
   empty fails validation with the "no types" error. *)
C11_Original ==
    /\ EmptyInterfacesDropped
    /\ (ParsedSource /\ AllTypeInterfacesEmpty(source.text)) =>
           last.outcome = Throw(NoTypesError)

(* C11 amended: every Type of a Specification produced by parsing the source
   has a non-empty fields list, an interface named ...Type with no property
   member is dropped, and a source whose type interfaces are all empty fails
   validation: with the "no types" error when it declares at least one
   operation, and with the "no operations" error, which is checked first,
   when it declares none. *)
C11_EmptyTypesDropped ==
    /\ EmptyInterfacesDropped
    /\ (ParsedSource /\ AllTypeInterfacesEmpty(source.text)) =>
           /\ last.outcome.kind = "throw"
           /\ Len(source.text.operations) > 0 => last.outcome = Throw(NoTypesError)
           /\ Len(source.text.operations) = 0 => last.outcome.error.code = ParserCode(2)

\* a call on a source with every operation and capability whose only type
\* interface has no property: the interface is dropped and the call fails
C11_Witness ==
    /\ ParsedSource
    /\ source.text.types = <<"EmptyType">>
    /\ MissingCanonical(source.text) = {}
    /\ source.text.capabilities >= 1
    /\ last.outcome = Throw(NoTypesError)

-----------------------------------------------------------------------------
(* What the claims below read from an operations interface *)

\* the forEach of parseOperationsInterface has visited every member
AllVisited == visited = Len(contract)

\* the positions of the property members whose type is a type reference,
\* ascending
TypeReferenceMembers ==
    SelectSeq([i \in 1..Len(contract) |-> i],
              LAMBDA i : /\ contract[i].kind = "PropertySignature"
                         /\ contract[i].type.kind = "TypeReference")

\* the text of the n-th type argument of a type reference, or the placeholder
TypeArgumentOr(t, n) ==
    IF n <= Len(t.typeArguments) THEN GetText(t.typeArguments[n]) ELSE <<"any">>

(* C12: the members of the operations contract whose type is a type
   reference, those with two type arguments among them, yield exactly one
   Operation each, in declaration order; its inputType and outputType are the
   first and the second type argument, each 'any' when that argument is
   absent; its required flag is TRUE exactly when the member has no optional
   marker; and the members whose type is not a type reference yield none. *)
C12_OperationsExtracted ==
    AllVisited =>
        /\ Len(operations) = Len(TypeReferenceMembers)
        /\ \A k \in 1..Len(TypeReferenceMembers) :
              LET m == contract[TypeReferenceMembers[k]]
                  o == operations[k]
              IN  /\ o.name = m.name
                  /\ o.inputType = TypeArgumentOr(m.type, 1)
                  /\ o.outputType = TypeArgumentOr(m.type, 2)
                  /\ o.required = ~m.questionToken

\* an interface whose first member has a keyword type and whose second,
\* optional, member has a two-argument type reference: one Operation
C12_Witness ==
    /\ AllVisited
    /\ Len(contract) = 2
    /\ contract[1].type = Keyword("string")
    /\ contract[2].questionToken
    /\ Len(operations) = 1
    /\ operations[1].name = "List"
    /\ operations[1].inputType = <<"GetRequest">>
    /\ operations[1].outputType = <<"string", "[]">>
    /\ ~operations[1].required

-----------------------------------------------------------------------------
(* What the claims below read from a call of a wrapped function *)

\* the wrapped function was called and the inner function threw
InnerThrew == result # NoCall /\ fn.outcome.kind = "throw"

(* C13: when the inner function throws a value that is already an AxeError,
   a record built by createError, the wrapped function rethrows that same
   value, code and cause chain intact; only a thrown value that is not an
   AxeError is wrapped, into a new AxeError of code 999 whose cause is the
   original error (an Error made of its text when it is not an Error). *)
C13_AxeErrorsRethrown ==
    InnerThrew =>
        /\ IsAxeError(fn.outcome.error) => result = Throw(fn.outcome.error)
        /\ result # Throw(fn.outcome.error) =>
              /\ ~IsAxeError(fn.outcome.error)
              /\ result.kind = "throw"
              /\ IsAxeError(result.error)
              /\ result.error.code.number = <<9, 9, 9>>
              /\ result.error.cause =
                    IF IsError(fn.outcome.error) THEN fn.outcome.error
                    ELSE NewError(StringOf(fn.outcome.error))

-----------------------------------------------------------------------------
(* What the claims below read from the cache file after a call *)

CacheUnchanged == cache = last.before.cache

\* the call got as far as cacheSpecification
ReachedCacheWrite == last.wrote # "none"

(* C14: parseSpecification writes the cache file only after the source has
   been parsed and has passed validateSpecification: a call that fails, on
   an unreadable source or a validation error, and a call served from the
   cache leave the content and the timestamp of the cache file unchanged;
   only a call that returns a parsed Specification satisfying the four
   validation invariants reaches the write, and every cache file such a call
   has written holds exactly that Specification. *)
C14_CacheWrittenAfterValidation ==
    Called =>
        /\ (last.outcome.kind = "throw" \/ last.fromCache) =>
              /\ CacheUnchanged
              /\ ~ReachedCacheWrite
        /\ (ReachedCacheWrite \/ ~CacheUnchanged) =>
              /\ ~last.fromCache
              /\ ~last.faults.sourceRead
              /\ last.outcome.kind = "return"
              /\ ValidationInvariants(last.outcome.value)
        /\ last.wrote = "ok" =>
              /\ cache.exists
              /\ cache.text.kind = "json"
              /\ JSONparse(cache.text) = last.outcome.value
              /\ ValidationInvariants(JSONparse(cache.text))

\* a call that failed validation past a cache file as old as the source or
\* older, and left that file as it was
C14_Witness ==
    /\ Called
    /\ ~last.faults.sourceRead
    /\ last.outcome.kind = "throw"
    /\ last.outcome.error.code \in {ParserCode(n) : n \in 2..5}
    /\ last.before.cache.exists
    /\ last.before.cache.mtime <= last.before.sourceMtime
    /\ CacheUnchanged

====
